---- MODULE Spec2Model ----
(***************************************************************************)
(* Model of src/src/components/RealmStatusDisplay.jsx: the React component *)
(* RealmStatusDisplay, its fetch pipeline (fetchRealmData, run by the      *)
(* useEffect on every change of region/config/ACCESS_TOKEN), the header    *)
(* click handler handleSort and the memoised sorted view sortedRealms.     *)
(*                                                                         *)
(* Representation.  JavaScript strings that the code compares with < and > *)
(* or lower-cases (realm names, realm types, display labels, hrefs) are    *)
(* tuples of UTF-16 code units, e.g. "Ab" is <<65, 98>>.  Enumerated       *)
(* strings that the code only tests with === are TLA+ strings.  A value    *)
(* that may be null/undefined is None (<<>>) or Some(v) (<<v>>).           *)
(***************************************************************************)
EXTENDS Integers, Sequences, FiniteSets, TLC

VARIABLES
    region,               \* prop region of the current render (config goes with it)
    ACCESS_TOKEN,         \* prop ACCESS_TOKEN of the current render (None = absent)
    allRealmsForDisplay,  \* useState(null): None or Some(sequence of rows)
    isLoading,            \* useState(true)
    error,                \* useState(null): None or Some(message)
    sortDirection,        \* useState('asc')
    sortColumn,           \* useState(null): None or Some(column)
    pipes,                \* the invocations of fetchRealmData, in start order
    mounted               \* whether the mount effect has run

vars == <<region, ACCESS_TOKEN, allRealmsForDisplay, isLoading, error,
          sortDirection, sortColumn, pipes, mounted>>

fetchState == <<allRealmsForDisplay, isLoading, error>>

None == <<>>
Some(v) == <<v>>

-----------------------------------------------------------------------------
(* Bounds of the model.                                                    *)

MaxPipelines == 2     \* invocations of fetchRealmData in one behaviour
MaxRows == 4          \* rows held when the sort engine is exercised alone
MaxClusters == 2      \* clusters handed to the flatten step exercised alone

-----------------------------------------------------------------------------
(* JavaScript strings as tuples of code units.                             *)

\* String.prototype.toLowerCase on one code unit; the model's strings are
\* ASCII.
LowerUnit(c) == IF c >= 65 /\ c <= 90 THEN c + 32 ELSE c

\* String.prototype.toLowerCase.
toLowerCase(s) == [i \in 1..Len(s) |-> LowerUnit(s[i])]

\* The relational operator < on two strings: code-unit lexicographic order.
RECURSIVE StrLess(_, _)
StrLess(s, t) ==
    IF t = <<>> THEN FALSE
    ELSE IF s = <<>> THEN TRUE
    ELSE IF s[1] < t[1] THEN TRUE
    ELSE IF s[1] > t[1] THEN FALSE
    ELSE StrLess(Tail(s), Tail(t))

-----------------------------------------------------------------------------
(* Sort Engine: the useMemo body of sortedRealms.                          *)

\* The four columns whose header carries onClick={() => handleSort(...)}.
Columns == {"realmName", "statusName", "populationName", "realmType"}

\* The columns whose key the comparator replaces by a custom value.
NumericColumns == {"statusName", "populationName"}

\* Mutant of StatusRank: UP ranked below everything else.
StatusRankUpFirst(statusType) == IF statusType = "UP" THEN 0 ELSE 1

\* valueA = a.statusType === 'UP' ? 1 : 0
StatusRank(statusType) == IF statusType = "UP" THEN 1 ELSE 0

\* populationOrder is an object literal, so a lookup also finds the members
\* it inherits from Object.prototype: eleven functions and the accessor
\* __proto__.
ObjectPrototypeFunctions ==
    {"constructor", "toString", "toLocaleString", "valueOf", "hasOwnProperty",
     "isPrototypeOf", "propertyIsEnumerable", "__defineGetter__",
     "__defineSetter__", "__lookupGetter__", "__lookupSetter__"}

ObjectPrototypeNames == ObjectPrototypeFunctions \cup {"__proto__"}

\* "function " and "() { [native code] }".
FunctionPrefix == <<102, 117, 110, 99, 116, 105, 111, 110, 32>>
FunctionSuffix ==
    <<40, 41, 32, 123, 32, 91, 110, 97, 116, 105, 118, 101, 32, 99,
    111, 100, 101, 93, 32, 125>>

\* The name a built-in function prints: its property name, except for
\* constructor, which is the function Object.
FunctionName(name) ==
    CASE name = "constructor" -> <<79, 98, 106, 101, 99, 116>>
      [] name = "toString" ->
           <<116, 111, 83, 116, 114, 105, 110, 103>>
      [] name = "toLocaleString" ->
           <<116, 111, 76, 111, 99, 97, 108, 101, 83, 116, 114, 105, 110,
             103>>
      [] name = "valueOf" ->
           <<118, 97, 108, 117, 101, 79, 102>>
      [] name = "hasOwnProperty" ->
           <<104, 97, 115, 79, 119, 110, 80, 114, 111, 112, 101, 114, 116,
             121>>
      [] name = "isPrototypeOf" ->
           <<105, 115, 80, 114, 111, 116, 111, 116, 121, 112, 101, 79,
             102>>
      [] name = "propertyIsEnumerable" ->
           <<112, 114, 111, 112, 101, 114, 116, 121, 73, 115, 69, 110,
             117, 109, 101, 114, 97, 98, 108, 101>>
      [] name = "__defineGetter__" ->
           <<95, 95, 100, 101, 102, 105, 110, 101, 71, 101, 116, 116, 101,
             114, 95, 95>>
      [] name = "__defineSetter__" ->
           <<95, 95, 100, 101, 102, 105, 110, 101, 83, 101, 116, 116, 101,
             114, 95, 95>>
      [] name = "__lookupGetter__" ->
           <<95, 95, 108, 111, 111, 107, 117, 112, 71, 101, 116, 116, 101,
             114, 95, 95>>
      [] name = "__lookupSetter__" ->
           <<95, 95, 108, 111, 111, 107, 117, 112, 83, 101, 116, 116, 101,
             114, 95, 95>>

\* The string an inherited member converts to when it is compared:
\* "function valueOf() { [native code] }" for a function, "[object Object]"
\* for the object that __proto__ yields.
ToPrimitive(name) ==
    IF name \in ObjectPrototypeFunctions
    THEN FunctionPrefix \o FunctionName(name) \o FunctionSuffix
    ELSE <<91, 111, 98, 106, 101, 99, 116, 32, 79, 98, 106, 101, 99,
         116, 93>>

\* populationOrder[a.populationType] || 0: the rank of an own key; the
\* inherited member, which is truthy, for a name of Object.prototype; 0 for
\* any other type, whose lookup is undefined.
populationOrder(populationType) ==
    CASE populationType = "HIGH" -> [number |-> 3]
      [] populationType = "MEDIUM" -> [number |-> 2]
      [] populationType = "LOW" -> [number |-> 1]
      [] populationType = "FULL" -> [number |-> 4]
      [] populationType \in ObjectPrototypeNames -> [inherited |-> populationType]
      [] OTHER -> [number |-> 0]

\* The value the comparator compares for a column with a custom key.
NumKey(row, col) ==
    IF col = "statusName" THEN [number |-> StatusRank(row.statusType)]
    ELSE populationOrder(row.populationType)

\* typeof value === 'number': a value is [number |-> n] or
\* [inherited |-> name].
IsNumber(value) == "number" \in DOMAIN value

\* The relational operator < on two custom keys.  Two numbers compare as
\* numbers.  An inherited member converts to a string: two of them compare
\* as strings, and against a number the string converts to NaN, for which
\* both < and > are false.
KeyValueLess(x, y) ==
    IF IsNumber(x) /\ IsNumber(y) THEN x.number < y.number
    ELSE IF ~IsNumber(x) /\ ~IsNumber(y)
    THEN StrLess(ToPrimitive(x.inherited), ToPrimitive(y.inherited))
    ELSE FALSE

\* The string the comparator compares for the other columns: both values
\* are strings, so both are lower-cased.
StrKey(row, col) == toLowerCase(row[col])

\* valueA < valueB after the key replacement.
ValueLess(a, b, col) ==
    IF col \in NumericColumns THEN KeyValueLess(NumKey(a, col), NumKey(b, col))
    ELSE StrLess(StrKey(a, col), StrKey(b, col))

\* Mutant of comparator: the direction is ignored.
comparatorAscendingOnly(a, b, col, dir) ==
    IF ValueLess(a, b, col) THEN -1
    ELSE IF ValueLess(b, a, col) THEN 1
    ELSE 0

\* Mutant of comparator: no "return 0", equal values count as greater.
comparatorWithoutTie(a, b, col, dir) ==
    IF ValueLess(a, b, col) THEN (IF dir = "asc" THEN -1 ELSE 1)
    ELSE (IF dir = "asc" THEN 1 ELSE -1)

\* The comparator handed to Array.prototype.sort.
comparator(a, b, col, dir) ==
    IF ValueLess(a, b, col) THEN (IF dir = "asc" THEN -1 ELSE 1)
    ELSE IF ValueLess(b, a, col) THEN (IF dir = "asc" THEN 1 ELSE -1)
    ELSE 0

\* Array.prototype.sort as the engine of the build (V8) runs it on fewer
\* than 64 elements: the initial run is found (and reversed when it is
\* strictly descending), then every further element is placed by binary
\* insertion.  The sort is stable; for a consistent comparator every stable
\* sort, also that of longer arrays, gives this order.  The comparator is
\* not consistent when a key is an inherited member (it answers 0 against
\* every number), and then the order depends on these very comparisons.

\* The length of the initial run of arr, idx being the next position to
\* examine.
RECURSIVE RunLength(_, _, _, _, _)
RunLength(arr, idx, isDescending, col, dir) ==
    IF idx > Len(arr) THEN Len(arr)
    ELSE LET order == comparator(arr[idx], arr[idx - 1], col, dir) IN
         IF (isDescending /\ order >= 0) \/ (~isDescending /\ order < 0)
         THEN idx - 1
         ELSE RunLength(arr, idx + 1, isDescending, col, dir)

ReverseRange(arr, n) ==
    [i \in 1..Len(arr) |-> IF i <= n THEN arr[n + 1 - i] ELSE arr[i]]

\* The number of elements of work[1..right] that stay before pivot.
RECURSIVE InsertionPoint(_, _, _, _, _, _)
InsertionPoint(work, pivot, left, right, col, dir) ==
    IF left >= right THEN left
    ELSE LET mid == left + ((right - left) \div 2) IN
         IF comparator(pivot, work[mid + 1], col, dir) < 0
         THEN InsertionPoint(work, pivot, left, mid, col, dir)
         ELSE InsertionPoint(work, pivot, mid + 1, right, col, dir)

\* work[1..start] is sorted; the elements behind it are inserted in turn.
RECURSIVE BinaryInsertionSort(_, _, _, _)
BinaryInsertionSort(work, start, col, dir) ==
    IF start >= Len(work) THEN work
    ELSE LET pivot == work[start + 1]
             left == InsertionPoint(work, pivot, 0, start, col, dir)
         IN  BinaryInsertionSort(SubSeq(work, 1, left) \o <<pivot>>
                                   \o SubSeq(work, left + 1, start)
                                   \o SubSeq(work, start + 2, Len(work)),
                                 start + 1, col, dir)

ArraySort(arr, col, dir) ==
    IF Len(arr) < 2 THEN arr
    ELSE LET isDescending == comparator(arr[2], arr[1], col, dir) < 0
             run == RunLength(arr, 3, isDescending, col, dir)
         IN  BinaryInsertionSort(IF isDescending THEN ReverseRange(arr, run) ELSE arr,
                                 run, col, dir)

\* The useMemo body as a function of its three dependencies.
SortedView(held, column, direction) ==
    IF held = None THEN <<>>
    ELSE IF column # None THEN ArraySort(held[1], column[1], direction)
    ELSE held[1]

\* const sortedRealms = useMemo(..., [allRealmsForDisplay, sortColumn, sortDirection])
sortedRealms == SortedView(allRealmsForDisplay, sortColumn, sortDirection)

\* The table (and with it the clickable headers) is rendered.
TableRendered == ~isLoading /\ error = None /\ allRealmsForDisplay # None

\* Mutant of handleSort: a click on another column keeps the direction
\* (setSortDirection('asc') is missing).
handleSortKeepsDirection(column) ==
    /\ mounted
    /\ TableRendered
    /\ IF sortColumn = Some(column)
       THEN /\ sortDirection' = (IF sortDirection = "asc" THEN "desc" ELSE "asc")
            /\ UNCHANGED sortColumn
       ELSE /\ sortColumn' = Some(column)
            /\ UNCHANGED sortDirection
    /\ UNCHANGED <<region, ACCESS_TOKEN, allRealmsForDisplay, isLoading, error,
                   pipes, mounted>>

\* Mutant of handleSort: the rows are sorted in place, without the copy.
handleSortInPlace(column) ==
    /\ mounted
    /\ TableRendered
    /\ IF sortColumn = Some(column)
       THEN /\ sortDirection' = (IF sortDirection = "asc" THEN "desc" ELSE "asc")
            /\ UNCHANGED sortColumn
       ELSE /\ sortColumn' = Some(column)
            /\ sortDirection' = "asc"
    /\ allRealmsForDisplay' =
         Some(SortedView(allRealmsForDisplay, sortColumn', sortDirection'))
    /\ UNCHANGED <<region, ACCESS_TOKEN, isLoading, error, pipes, mounted>>

\* handleSort(column), reachable only through a rendered header.
handleSort(column) ==
    /\ mounted
    /\ TableRendered
    /\ IF sortColumn = Some(column)
       THEN /\ sortDirection' = (IF sortDirection = "asc" THEN "desc" ELSE "asc")
            /\ UNCHANGED sortColumn
       ELSE /\ sortColumn' = Some(column)
            /\ sortDirection' = "asc"
    /\ UNCHANGED <<region, ACCESS_TOKEN, allRealmsForDisplay, isLoading, error,
                   pipes, mounted>>

-----------------------------------------------------------------------------
(* Row Flattener: step 4 of fetchRealmData.                                *)

\* The object literal pushed for one member of one connected realm.
RowOf(connectedRealm, individualRealm) ==
    [connectedRealmId |-> connectedRealm.id,
     realmName        |-> individualRealm.name,
     statusType       |-> connectedRealm.status[1].type,
     statusName       |-> connectedRealm.status[1].name,
     populationType   |-> connectedRealm.population[1].type,
     populationName   |-> connectedRealm.population[1].name,
     hasQueue         |-> connectedRealm.has_queue,
     realmType        |-> individualRealm.type.name]

\* Mutant of PushMembers: unshift instead of push.
RECURSIVE UnshiftMembers(_, _, _)
UnshiftMembers(acc, connectedRealm, members) ==
    IF members = <<>> THEN acc
    ELSE UnshiftMembers(<<RowOf(connectedRealm, Head(members))>> \o acc,
                        connectedRealm, Tail(members))

\* connectedRealm.realms.forEach(individualRealm => flattenedRealms.push({...}))
RECURSIVE PushMembers(_, _, _)
PushMembers(acc, connectedRealm, members) ==
    IF members = <<>> THEN acc
    ELSE PushMembers(Append(acc, RowOf(connectedRealm, Head(members))),
                     connectedRealm, Tail(members))

\* if (connectedRealm.realms && Array.isArray(connectedRealm.realms))
HasRealms(connectedRealm) == connectedRealm.realms # None

\* allConnectedRealmStatuses.forEach(connectedRealm => ...)
RECURSIVE PushClusters(_, _)
PushClusters(acc, statuses) ==
    IF statuses = <<>> THEN acc
    ELSE PushClusters(IF HasRealms(Head(statuses))
                      THEN PushMembers(acc, Head(statuses), Head(statuses).realms[1])
                      ELSE acc,
                      Tail(statuses))

\* const flattenedRealms = []; ... the array handed to setAllRealmsForDisplay.
flattenedRealms(statuses) == PushClusters(<<>>, statuses)

\* Building a row reads connectedRealm.status.type and
\* connectedRealm.population.type: a TypeError when either object is absent
\* and the connected realm has at least one member.
RowThrows(connectedRealm) ==
    /\ HasRealms(connectedRealm)
    /\ connectedRealm.realms[1] # <<>>
    /\ (connectedRealm.status = None \/ connectedRealm.population = None)

FlattenThrows(statuses) == \E i \in 1..Len(statuses) : RowThrows(statuses[i])

TypeErrorReadingType == "Cannot read properties of undefined (reading 'type')"

-----------------------------------------------------------------------------
(* Id extraction: step 2 of fetchRealmData.                                *)

Slash == 47       \* '/'
Question == 63    \* '?'

\* The last element of s.split(sep): what follows the last sep in s.
RECURSIVE LastPart(_, _)
LastPart(s, sep) ==
    IF s = <<>> THEN <<>>
    ELSE IF s[Len(s)] = sep THEN <<>>
    ELSE Append(LastPart(SubSeq(s, 1, Len(s) - 1), sep), s[Len(s)])

\* s.split(sep)[0]: what precedes the first sep in s.
RECURSIVE FirstPart(_, _)
FirstPart(s, sep) ==
    IF s = <<>> THEN <<>>
    ELSE IF s[1] = sep THEN <<>>
    ELSE <<s[1]>> \o FirstPart(Tail(s), sep)

\* realm => { urlParts = realm.href.split('/'); ...; return idWithQuery.split('?')[0] }
ExtractId(href) == FirstPart(LastPart(href, Slash), Question)

\* realm.href.split throws a TypeError when an entry has no href.
MapThrows(connected_realms) ==
    \E i \in 1..Len(connected_realms) : connected_realms[i].href = None

connectedRealmIds(connected_realms) ==
    [i \in 1..Len(connected_realms) |-> ExtractId(connected_realms[i].href[1])]

TypeErrorReadingSplit == "Cannot read properties of undefined (reading 'split')"
TypeErrorReadingMap == "Cannot read properties of undefined (reading 'map')"

-----------------------------------------------------------------------------
(* The upstream API as the component sees it: what the two axios.get calls *)
(* can resolve or reject with.                                             *)

Regions == {"EU", "US"}

\* The ACCESS_TOKEN prop: a bearer token, or absent.
Tokens == {None, Some("token")}

\* "https://eu.api.blizzard.com/data/wow/connected-realm/1?namespace=dynamic-eu"
HrefWithQuery ==
    <<104, 116, 116, 112, 115, 58, 47, 47, 101, 117, 46, 97, 112, 105, 46,
    98, 108, 105, 122, 122, 97, 114, 100, 46, 99, 111, 109, 47, 100, 97,
    116, 97, 47, 119, 111, 119, 47, 99, 111, 110, 110, 101, 99, 116, 101,
    100, 45, 114, 101, 97, 108, 109, 47, 49, 63, 110, 97, 109, 101, 115,
    112, 97, 99, 101, 61, 100, 121, 110, 97, 109, 105, 99, 45, 101, 117>>

\* "https://eu.api.blizzard.com/data/wow/connected-realm/2"
HrefPlain ==
    <<104, 116, 116, 112, 115, 58, 47, 47, 101, 117, 46, 97, 112, 105, 46,
    98, 108, 105, 122, 122, 97, 114, 100, 46, 99, 111, 109, 47, 100, 97,
    116, 97, 47, 119, 111, 119, 47, 99, 111, 110, 110, 101, 99, 116, 101,
    100, 45, 114, 101, 97, 108, 109, 47, 50>>

EntryWithQuery == [href |-> Some(HrefWithQuery)]
EntryPlain == [href |-> Some(HrefPlain)]
EntryNoHref == [href |-> None]

\* The values of indexResponse.data.connected_realms the model draws from.
IndexLists ==
    { <<>>,
      <<EntryWithQuery, EntryPlain>>,
      <<EntryNoHref, EntryPlain>> }

\* Outcomes of the index request: rejected by axios (non-2xx or network),
\* or resolved with a body, which may lack connected_realms.
IndexResponses ==
    { [ok |-> FALSE, message |-> "Request failed with status code 401",
       connected_realms |-> None] }
    \cup { [ok |-> TRUE, message |-> "", connected_realms |-> None] }
    \cup { [ok |-> TRUE, message |-> "", connected_realms |-> Some(l)] :
           l \in IndexLists }

Id1 == <<49>>    \* "1"
Id2 == <<50>>    \* "2"

Member(name, typeName) == [name |-> name, type |-> [name |-> typeName]]

\* response.data of a well-formed connected realm, per id.
ClusterBody(id) ==
    IF id = Id1
    THEN [id |-> 1,
          status |-> Some([type |-> "UP", name |-> <<85, 112>>]),
          population |-> Some([type |-> "HIGH", name |-> <<72, 105, 103, 104>>]),
          has_queue |-> FALSE,
          realms |-> Some(<<Member(<<98>>, <<78, 111, 114, 109, 97, 108>>), Member(<<65>>, <<82, 80>>)>>)]
    ELSE [id |-> 2,
          status |-> Some([type |-> "DOWN", name |-> <<68, 111, 119, 110>>]),
          population |-> Some([type |-> "LOW", name |-> <<76, 111, 119>>]),
          has_queue |-> TRUE,
          realms |-> Some(<<Member(<<97>>, <<78, 111, 114, 109, 97, 108>>)>>)]

\* A 2xx body that lacks the status object.
BodyWithoutStatus(id) == [ClusterBody(id) EXCEPT !.status = None]

\* Outcomes of the detail request for one id: rejected, or resolved with a
\* well-formed or a malformed body.  Only the ids 1 and 2 exist upstream.
DetailResponses(id) ==
    { [ok |-> FALSE, message |-> "Request failed with status code 404",
       data |-> None] }
    \cup (IF id \in {Id1, Id2}
          THEN { [ok |-> TRUE, message |-> "", data |-> Some(ClusterBody(id))],
                 [ok |-> TRUE, message |-> "", data |-> Some(BodyWithoutStatus(id))] }
          ELSE {})

-----------------------------------------------------------------------------
(* fetchRealmData: one record of pipes per invocation.                     *)
(*   region    the region captured by the closure                          *)
(*   pc        "index"  awaiting the index request                         *)
(*             "detail" awaiting the detail request of ids[next]           *)
(*             "delay"  awaiting delay(50) after ids[next] succeeded       *)
(*             "done"   returned                                           *)
(*   listed    None until the index request resolves, then Some(n), n the  *)
(*             number of entries of connected_realms                       *)
(*   entries   None until the index request resolves with a list, then     *)
(*             Some(connected_realms)                                      *)
(*   ids       connectedRealmIds                                           *)
(*   statuses  allConnectedRealmStatuses                                   *)
(*   sent      the requests issued so far, in order                        *)
(*   served    the outcomes of the detail requests so far, in order        *)
(*   solo      no other invocation was in flight when this one started     *)
(*   outcome   "" while running, then "ready" (returned through            *)
(*             setAllRealmsForDisplay) or "error" (returned through        *)
(*             setError)                                                   *)
(*   unmounted the panel that started the invocation has been unmounted    *)
(*             (App.jsx, tab switch): its state updates are dropped        *)

AuthMessage == <<"Authentication token not available.">>

\* `Failed to load ${region} realm status. ... Error: ${err.message}`
FailedMessage(r, message) ==
    <<"Failed to load ", r,
      " realm status. Please check your network or API token. Error: ", message>>

IndexRequest == <<"index">>
DetailRequest(id) == <<"detail", id>>

AllDone == \A p \in 1..Len(pipes) : pipes[p].pc = "done"

NewPipe(r, pc, sent) ==
    [region |-> r, pc |-> pc, listed |-> None, entries |-> None, ids |-> <<>>,
     next |-> 0, statuses |-> <<>>, sent |-> sent, served |-> <<>>,
     solo |-> AllDone, outcome |-> IF pc = "done" THEN "error" ELSE "",
     unmounted |-> FALSE]

\* Mutant of StartFetch: the token check of lines 28-32 is missing.
StartFetchUnchecked(r, token) ==
    /\ error' = None
    /\ isLoading' = TRUE
    /\ pipes' = Append(pipes, NewPipe(r, "index", <<IndexRequest>>))

\* The synchronous head of fetchRealmData, run by the effect: lines 24-41.
\* earlier holds the invocations started before this one.
StartFetchAfter(earlier, r, token) ==
    IF token = None
    THEN /\ error' = Some(AuthMessage)
         /\ isLoading' = FALSE
         /\ pipes' = Append(earlier, NewPipe(r, "done", <<>>))
    ELSE /\ error' = None
         /\ isLoading' = TRUE
         /\ pipes' = Append(earlier, NewPipe(r, "index", <<IndexRequest>>))

StartFetch(r, token) == StartFetchAfter(pipes, r, token)

\* The effect runs after the first render.
Mount ==
    /\ ~mounted
    /\ mounted' = TRUE
    /\ StartFetch(region, ACCESS_TOKEN)
    /\ UNCHANGED <<region, ACCESS_TOKEN, allRealmsForDisplay, sortDirection, sortColumn>>

\* A re-render with a changed dependency [region, config, ACCESS_TOKEN]
\* runs the effect again; the cleanup of the previous run does nothing.
\* config is compared by identity: a re-render that passes a new config
\* object with the same region and token runs the effect too, so r and
\* token may equal the current props.
ParamChange(r, token) ==
    /\ mounted
    /\ Len(pipes) < MaxPipelines
    /\ region' = r
    /\ ACCESS_TOKEN' = token
    /\ StartFetch(r, token)
    /\ UNCHANGED <<allRealmsForDisplay, sortDirection, sortColumn, mounted>>

\* App.jsx: a click on the tab of the other region (setActiveTab, lines 45
\* and 50).  The conditional rendering of lines 57-71 unmounts the panel on
\* screen and mounts a new RealmStatusDisplay: its state is that of
\* useState again and its effect runs.  The invocations of the unmounted
\* panel go on (nothing cancels them), but React drops their state updates.
\* ACCESS_TOKEN is a constant of App.jsx (line 7).
setActiveTab(tab) ==
    /\ mounted
    /\ tab # region
    /\ Len(pipes) < MaxPipelines
    /\ region' = tab
    /\ allRealmsForDisplay' = None
    /\ sortDirection' = "asc"
    /\ sortColumn' = None
    /\ StartFetchAfter([p \in 1..Len(pipes) |-> [pipes[p] EXCEPT !.unmounted = TRUE]],
                       tab, ACCESS_TOKEN)
    /\ UNCHANGED <<ACCESS_TOKEN, mounted>>

\* Mutant of FailFetch: the finally block is missing, the loading flag stays.
FailFetchWithoutFinally(p, q, message) ==
    /\ error' = Some(FailedMessage(q.region, message))
    /\ pipes' = [pipes EXCEPT ![p] = [q EXCEPT !.pc = "done", !.outcome = "error"]]
    /\ UNCHANGED <<allRealmsForDisplay, isLoading>>

\* catch (err) { setError(...) } finally { setIsLoading(false) }: lines 91-98.
FailFetch(p, q, message) ==
    /\ pipes' = [pipes EXCEPT ![p] = [q EXCEPT !.pc = "done", !.outcome = "error"]]
    /\ IF q.unmounted
       THEN UNCHANGED fetchState
       ELSE /\ error' = Some(FailedMessage(q.region, message))
            /\ isLoading' = FALSE
            /\ UNCHANGED allRealmsForDisplay

\* Steps 4 and 5 and the finally block: lines 69-98.
CompleteFetch(p, q) ==
    IF FlattenThrows(q.statuses)
    THEN FailFetch(p, q, TypeErrorReadingType)
    ELSE /\ pipes' = [pipes EXCEPT ![p] = [q EXCEPT !.pc = "done", !.outcome = "ready"]]
         /\ IF q.unmounted
            THEN UNCHANGED fetchState
            ELSE /\ allRealmsForDisplay' = Some(flattenedRealms(q.statuses))
                 /\ isLoading' = FALSE
                 /\ UNCHANGED error

\* Mutant of NextIteration: every iteration requests the first id again.
NextIterationFirstIdAgain(p, q) ==
    IF q.next < Len(q.ids)
    THEN /\ pipes' = [pipes EXCEPT ![p] =
                        [q EXCEPT !.pc = "detail", !.next = q.next + 1,
                                  !.sent = Append(q.sent, DetailRequest(q.ids[1]))]]
         /\ UNCHANGED fetchState
    ELSE CompleteFetch(p, q)

\* The head of the next iteration of the for loop (lines 54-61), or the
\* code after the loop when no id is left.
NextIteration(p, q) ==
    IF q.next < Len(q.ids)
    THEN /\ pipes' = [pipes EXCEPT ![p] =
                        [q EXCEPT !.pc = "detail", !.next = q.next + 1,
                                  !.sent = Append(q.sent, DetailRequest(q.ids[q.next + 1]))]]
         /\ UNCHANGED fetchState
    ELSE CompleteFetch(p, q)

\* The index request settles: lines 37-54.
IndexResolve(p, resp) ==
    /\ pipes[p].pc = "index"
    /\ IF ~resp.ok
       THEN FailFetch(p, pipes[p], resp.message)
       ELSE IF resp.connected_realms = None
       THEN FailFetch(p, pipes[p], TypeErrorReadingMap)
       ELSE LET q == [pipes[p] EXCEPT !.listed = Some(Len(resp.connected_realms[1])),
                                      !.entries = resp.connected_realms] IN
            IF MapThrows(resp.connected_realms[1])
            THEN FailFetch(p, q, TypeErrorReadingSplit)
            ELSE NextIteration(p, [q EXCEPT
                                     !.ids = connectedRealmIds(resp.connected_realms[1])])
    /\ UNCHANGED <<region, ACCESS_TOKEN, sortDirection, sortColumn, mounted>>

\* Line 62-63: the detail request resolved; push and start delay(50).
DetailSucceeded(p, q, resp) ==
    /\ pipes' = [pipes EXCEPT ![p] =
                   [q EXCEPT !.pc = "delay",
                             !.statuses = Append(q.statuses, resp.data[1])]]
    /\ UNCHANGED fetchState

\* Mutant of DetailFailed: no inner try/catch, the rejection reaches the
\* outer catch and ends the invocation.
DetailFailedAborts(p, q) ==
    FailFetch(p, q, q.served[Len(q.served)].message)

\* Lines 64-66: the detail request was rejected; warn and go on.
DetailFailed(p, q) == NextIteration(p, q)

\* The detail request of ids[next] settles: lines 57-66.
DetailResolve(p, resp) ==
    /\ pipes[p].pc = "detail"
    /\ LET q == [pipes[p] EXCEPT !.served = Append(pipes[p].served, resp)] IN
       IF resp.ok THEN DetailSucceeded(p, q, resp) ELSE DetailFailed(p, q)
    /\ UNCHANGED <<region, ACCESS_TOKEN, sortDirection, sortColumn, mounted>>

\* The timer of delay(50) fires: line 63, then the next iteration.
DelayFire(p) ==
    /\ pipes[p].pc = "delay"
    /\ NextIteration(p, pipes[p])
    /\ UNCHANGED <<region, ACCESS_TOKEN, sortDirection, sortColumn, mounted>>

\* <button className="delete" onClick={() => setError(null)}>
DismissError ==
    /\ error # None
    /\ error' = None
    /\ UNCHANGED <<region, ACCESS_TOKEN, allRealmsForDisplay, isLoading,
                   sortDirection, sortColumn, pipes, mounted>>

-----------------------------------------------------------------------------
(* The component: first render, then effects, responses, timers, clicks.   *)

Init ==
    /\ region \in Regions
    /\ ACCESS_TOKEN \in Tokens
    /\ allRealmsForDisplay = None
    /\ isLoading = TRUE
    /\ error = None
    /\ sortDirection = "asc"
    /\ sortColumn = None
    /\ pipes = <<>>
    /\ mounted = FALSE

Next ==
    \/ Mount
    \/ \E r \in Regions, token \in Tokens : ParamChange(r, token)
    \/ \E tab \in Regions : setActiveTab(tab)
    \/ \E p \in 1..Len(pipes) : \E resp \in IndexResponses : IndexResolve(p, resp)
    \/ \E p \in 1..Len(pipes) :
         /\ pipes[p].pc = "detail"
         /\ \E resp \in DetailResponses(pipes[p].ids[pipes[p].next]) : DetailResolve(p, resp)
    \/ \E p \in 1..Len(pipes) : DelayFire(p)
    \/ DismissError
    \/ \E column \in Columns : handleSort(column)

Spec == Init /\ [][Next]_vars

\* The continuation of invocation p after the await it is suspended at: the
\* index request or the detail request settles, or the delay timer fires.
Resume(p) ==
    /\ p <= Len(pipes)
    /\ \/ \E resp \in IndexResponses : IndexResolve(p, resp)
       \/ /\ pipes[p].pc = "detail"
          /\ \E resp \in DetailResponses(pipes[p].ids[pipes[p].next]) : DetailResolve(p, resp)
       \/ DelayFire(p)

\* The steps that bear on the fetch: mount, parameter changes, tab switches, the
\* continuations of the invocations and the dismissal of the error.  Header
\* clicks are left to Spec: handleSort writes only the sort state, which no
\* step of the fetch reads.
LiveNext ==
    \/ Mount
    \/ \E r \in Regions, token \in Tokens : ParamChange(r, token)
    \/ \E tab \in Regions : setActiveTab(tab)
    \/ \E p \in 1..Len(pipes) : Resume(p)
    \/ DismissError

\* The fetch under an environment in which every issued request eventually
\* resolves or is rejected and every delay timer eventually fires.
LiveSpec ==
    /\ Init
    /\ [][LiveNext]_vars
    /\ \A p \in 1..MaxPipelines : WF_vars(Resume(p))

-----------------------------------------------------------------------------
(* The sort engine on its own: the component holds the rows of a finished  *)
(* fetch and the user clicks column headers.                               *)

\* A well-formed connected realm with one member.
OneRealm(id, name, statusType, statusName, populationType, populationName,
         queue, typeName) ==
    [id |-> id,
     status |-> Some([type |-> statusType, name |-> statusName]),
     population |-> Some([type |-> populationType, name |-> populationName]),
     has_queue |-> queue,
     realms |-> Some(<<Member(name, typeName)>>)]

\* Names that tie without case ("a"/"A", "b"/"B", "ab"/"Ab") and whose
\* code-unit order differs from their lower-cased order ("B" < "a");
\* display labels whose order opposes the rank ("Live" for UP, "Off" for
\* DOWN; "Full" < "High" < "Low"); a population type outside the table.
SortClusters ==
    { OneRealm(1, <<98>>, "UP", <<85, 112>>, "FULL", <<70, 117, 108, 108>>, TRUE, <<78, 111, 114, 109, 97, 108>>),
      OneRealm(2, <<65>>, "DOWN", <<68, 111, 119, 110>>, "HIGH", <<72, 105, 103, 104>>, FALSE, <<82, 80>>),
      OneRealm(3, <<97>>, "UP", <<76, 105, 118, 101>>, "LOW", <<76, 111, 119>>, FALSE, <<78, 111, 114, 109, 97, 108>>),
      OneRealm(4, <<66>>, "DOWN", <<79, 102, 102>>, "MEDIUM", <<77, 101, 100, 105, 117, 109>>, TRUE, <<114, 112>>),
      OneRealm(5, <<97, 98>>, "UP", <<85, 112>>, "NEW", <<78, 101, 119>>, FALSE, <<78, 111, 114, 109, 97, 108>>),
      OneRealm(6, <<65, 98>>, "DOWN", <<68, 111, 119, 110>>, "LOW", <<76, 111, 119>>, FALSE, <<82, 80>>) }

SeqsUpTo(S, n) == UNION { [1..k -> S] : k \in 0..n }

\* The decimal id of a one-digit cluster id, as the string of the href.
IdString(id) == <<48 + id>>

\* The record of an invocation that is in its last delay(50), every detail
\* request having resolved with the given bodies.
LastDelayPipe(r, bodies) ==
    [region |-> r, pc |-> "delay", listed |-> Some(Len(bodies)),
     entries |-> Some([i \in 1..Len(bodies) |-> [href |-> Some(IdString(bodies[i].id))]]),
     ids |-> [i \in 1..Len(bodies) |-> IdString(bodies[i].id)],
     next |-> Len(bodies), statuses |-> bodies,
     sent |-> <<IndexRequest>> \o
              [i \in 1..Len(bodies) |-> DetailRequest(IdString(bodies[i].id))],
     served |-> [i \in 1..Len(bodies) |->
                   [ok |-> TRUE, message |-> "", data |-> Some(bodies[i])]],
     solo |-> TRUE, outcome |-> "", unmounted |-> FALSE]

\* The invocation after it returned through setAllRealmsForDisplay.
ReadyPipe(r, bodies) ==
    [LastDelayPipe(r, bodies) EXCEPT !.pc = "done", !.outcome = "ready"]

\* The index lists no connected realm twice.
NoRepeat(seq) == \A i, j \in 1..Len(seq) : i # j => seq[i] # seq[j]

SortInitOver(clusters) ==
    /\ region = "EU"
    /\ ACCESS_TOKEN = Some("token")
    /\ \E bodies \in SeqsUpTo(clusters, MaxRows) :
         /\ NoRepeat(bodies)
         /\ allRealmsForDisplay = Some(flattenedRealms(bodies))
         /\ pipes = <<ReadyPipe("EU", bodies)>>
    /\ isLoading = FALSE
    /\ error = None
    /\ sortDirection = "asc"
    /\ sortColumn = None
    /\ mounted = TRUE

SortInit == SortInitOver(SortClusters)

SortNext == \E column \in Columns : handleSort(column)

SortSpec == SortInit /\ [][SortNext]_vars

\* The sort engine over population types that the rank table does not
\* list: FULL, LOW and NEW as above, and two connected realms whose
\* population type is the name of a member of Object.prototype.
InheritedNameClusters ==
    { c \in SortClusters : c.id \in {1, 3, 5} }
    \cup { OneRealm(7, <<99>>, "UP", <<85, 112>>, "constructor", <<67, 111, 110, 115, 116, 114, 117, 99, 116, 111, 114>>, FALSE, <<78, 111, 114, 109, 97, 108>>),
           OneRealm(8, <<100>>, "UP", <<85, 112>>, "toString", <<84, 111, 83, 116, 114, 105, 110, 103>>, FALSE, <<78, 111, 114, 109, 97, 108>>) }

InheritedNameInit == SortInitOver(InheritedNameClusters)

InheritedNameSpec == InheritedNameInit /\ [][SortNext]_vars

-----------------------------------------------------------------------------
(* The flatten step on its own: an invocation whose detail requests have   *)
(* all resolved finishes its last delay and flattens what it collected.    *)

\* Bodies with two, one and no members, and bodies lacking realms, status
\* or population.
FlattenClusters ==
    { ClusterBody(Id1),
      ClusterBody(Id2),
      [id |-> 3,
       status |-> Some([type |-> "UP", name |-> <<85, 112>>]),
       population |-> Some([type |-> "FULL", name |-> <<70, 117, 108, 108>>]),
       has_queue |-> TRUE,
       realms |-> Some(<<>>)],
      [id |-> 4,
       status |-> Some([type |-> "UP", name |-> <<76, 105, 118, 101>>]),
       population |-> Some([type |-> "MEDIUM", name |-> <<77, 101, 100, 105, 117, 109>>]),
       has_queue |-> FALSE,
       realms |-> Some(<<Member(<<66>>, <<114, 112>>), Member(<<97, 98>>, <<78, 111, 114, 109, 97, 108>>),
                         Member(<<66>>, <<114, 112>>)>>)],
      [ClusterBody(Id1) EXCEPT !.id = 5, !.realms = None],
      [ClusterBody(Id2) EXCEPT !.id = 6, !.status = None],
      [ClusterBody(Id1) EXCEPT !.id = 7, !.population = None],
      [ClusterBody(Id2) EXCEPT !.id = 8, !.status = None, !.realms = Some(<<>>)] }

FlattenInit ==
    /\ region = "EU"
    /\ ACCESS_TOKEN = Some("token")
    /\ allRealmsForDisplay = None
    /\ isLoading = TRUE
    /\ error = None
    /\ sortDirection = "asc"
    /\ sortColumn = None
    /\ \E bodies \in SeqsUpTo(FlattenClusters, MaxClusters) :
         /\ bodies # <<>>
         /\ pipes = <<LastDelayPipe("EU", bodies)>>
    /\ mounted = TRUE

FlattenNext == \E p \in 1..Len(pipes) : DelayFire(p)

FlattenSpec == FlattenInit /\ [][FlattenNext]_vars

-----------------------------------------------------------------------------
(* Properties.                                                             *)

\* The invocation p is the latest one and ran with no other in flight.
Alone(p) == p = Len(pipes) /\ pipes[p].solo

\* A body that carries status, population and realms.
WellFormed(body) ==
    body.status # None /\ body.population # None /\ body.realms # None

\* One row per member of a well-formed body, in member order.
MemberRows(body) ==
    [j \in 1..Len(body.realms[1]) |-> RowOf(body, body.realms[1][j])]

\* The rows of the resolved detail requests, in request order.
RECURSIVE RowsOfServed(_)
RowsOfServed(served) ==
    IF served = <<>> THEN <<>>
    ELSE (IF Head(served).ok THEN MemberRows(Head(served).data[1]) ELSE <<>>)
         \o RowsOfServed(Tail(served))

\* The requests of an invocation that asked for the index and for every id.
AllRequests(ids) ==
    <<IndexRequest>> \o [i \in 1..Len(ids) |-> DetailRequest(ids[i])]

\* C1: once a parameter change has started a later invocation, no step of
\* an earlier invocation of the panel on screen changes the rows, the error
\* message or the loading flag.
C1_StaleNeverApplied ==
    [][\A p \in 1..Len(pipes) :
         (p < Len(pipes) /\ ~pipes'[p].unmounted /\ pipes'[p] # pipes[p])
         => UNCHANGED fetchState]_vars

\* The case of C2: an invocation over at least two ids has returned, some
\* detail request was rejected, at least one resolved, and every resolved
\* body is well-formed.
C2_Case(p) ==
    LET q == pipes[p] IN
    /\ q.pc = "done"
    /\ Alone(p)
    /\ Len(q.ids) >= 2
    /\ \E i \in 1..Len(q.served) : ~q.served[i].ok
    /\ \E i \in 1..Len(q.served) : q.served[i].ok
    /\ \A i \in 1..Len(q.served) : q.served[i].ok => WellFormed(q.served[i].data[1])

\* C2: with some detail requests rejected and at least one resolved, every
\* id was requested in index order, the component is not loading, shows no
\* error, and holds exactly the rows of the resolved clusters in index order.
C2_PartialFailureIsReady ==
    \A p \in 1..Len(pipes) :
        C2_Case(p) =>
            /\ pipes[p].sent = AllRequests(pipes[p].ids)
            /\ Len(pipes[p].served) = Len(pipes[p].ids)
            /\ ~isLoading
            /\ error = None
            /\ allRealmsForDisplay = Some(RowsOfServed(pipes[p].served))

\* Witness of C2: the first id was rejected, the second resolved, and its
\* rows are held.
C2_Witness ==
    \E p \in 1..Len(pipes) :
        /\ C2_Case(p)
        /\ ~pipes[p].served[1].ok
        /\ pipes[p].served[2].ok
        /\ allRealmsForDisplay = Some(MemberRows(ClusterBody(Id2)))

\* C3: the latest invocation returning after every detail request of a
\* non-empty id list was rejected leaves an error message and loading off.
C3_AllFailedIsError ==
    [][\A p \in 1..Len(pipes) :
         (/\ p = Len(pipes)
          /\ pipes[p].pc # "done"
          /\ pipes'[p].pc = "done"
          /\ pipes'[p].ids # <<>>
          /\ Len(pipes'[p].served) = Len(pipes'[p].ids)
          /\ \A i \in 1..Len(pipes'[p].served) : ~pipes'[p].served[i].ok)
         => (error' # None /\ ~isLoading')]_vars

\* C4: the latest invocation returning after an index response with zero
\* entries leaves an error message and loading off, and has issued no
\* detail request.
C4_EmptyIndexIsError ==
    [][\A p \in 1..Len(pipes) :
         (/\ p = Len(pipes)
          /\ pipes[p].pc # "done"
          /\ pipes'[p].pc = "done"
          /\ pipes'[p].listed = Some(0))
         => (/\ error' # None
             /\ ~isLoading'
             /\ pipes'[p].sent = <<IndexRequest>>)]_vars

\* C5: an invocation started with the credential absent sets the
\* authentication error, ends loading, returns at once having issued no
\* request, and a returned invocation never issues one later.
C5_AbsentCredential ==
    [][/\ (Len(pipes') = Len(pipes) + 1 /\ ACCESS_TOKEN' = None)
          => (/\ error' = Some(AuthMessage)
              /\ ~isLoading'
              /\ pipes'[Len(pipes')].pc = "done"
              /\ pipes'[Len(pipes')].sent = <<>>)
       /\ \A p \in 1..Len(pipes) :
            pipes[p].pc = "done"
            => [pipes'[p] EXCEPT !.unmounted = pipes[p].unmounted] = pipes[p]]_vars

\* Witness of C5: the latest invocation ran without a credential; the
\* error is shown and no request was issued.
C5_Witness ==
    /\ pipes # <<>>
    /\ ACCESS_TOKEN = None
    /\ pipes[Len(pipes)].pc = "done"
    /\ pipes[Len(pipes)].sent = <<>>
    /\ error = Some(AuthMessage)
    /\ ~isLoading

RECURSIVE SumMembers(_)
SumMembers(statuses) ==
    IF statuses = <<>> THEN 0
    ELSE Len(Head(statuses).realms[1]) + SumMembers(Tail(statuses))

\* The number of rows that precede the rows of the i-th cluster.
Offset(statuses, i) == SumMembers(SubSeq(statuses, 1, i - 1))

\* The case of C6: an invocation has returned and every body it collected
\* is well-formed.
C6_Case(p) ==
    /\ pipes[p].pc = "done"
    /\ \A i \in 1..Len(pipes[p].statuses) : WellFormed(pipes[p].statuses[i])

\* C6: the held rows number the sum of the member counts, and the row at
\* position Offset(i) + j carries the name and type of member j of cluster i
\* and the id, status, population and queue fields of cluster i.
C6_Flattening ==
    \A p \in 1..Len(pipes) :
        C6_Case(p) =>
            LET cs == pipes[p].statuses IN
            /\ ~isLoading
            /\ error = None
            /\ allRealmsForDisplay # None
            /\ Len(allRealmsForDisplay[1]) = SumMembers(cs)
            /\ \A i \in 1..Len(cs) :
                 \A j \in 1..Len(cs[i].realms[1]) :
                    LET row == allRealmsForDisplay[1][Offset(cs, i) + j]
                        member == cs[i].realms[1][j]
                    IN  /\ row.realmName = member.name
                        /\ row.realmType = member.type.name
                        /\ row.connectedRealmId = cs[i].id
                        /\ row.statusType = cs[i].status[1].type
                        /\ row.statusName = cs[i].status[1].name
                        /\ row.populationType = cs[i].population[1].type
                        /\ row.populationName = cs[i].population[1].name
                        /\ row.hasQueue = cs[i].has_queue

\* Witness of C6: a cluster of two members and a cluster of three members
\* were fetched and five rows are held.
C6_Witness ==
    \E p \in 1..Len(pipes) :
        /\ C6_Case(p)
        /\ Len(pipes[p].statuses) = 2
        /\ Len(pipes[p].statuses[1].realms[1]) = 2
        /\ Len(pipes[p].statuses[2].realms[1]) = 3
        /\ allRealmsForDisplay # None
        /\ Len(allRealmsForDisplay[1]) = 5

\* The rank of a status type as the specification states it.
StatedStatusRank(statusType) ==
    CASE statusType = "DOWN" -> 0
      [] statusType = "UP" -> 1
      [] OTHER -> 0

\* The rank of a population type as the specification states it.
StatedPopulationRank(populationType) ==
    CASE populationType = "LOW" -> 1
      [] populationType = "MEDIUM" -> 2
      [] populationType = "HIGH" -> 3
      [] populationType = "FULL" -> 4
      [] OTHER -> 0

\* The key of row a precedes the key of row b in the stated order of col.
KeyLess(a, b, col) ==
    CASE col = "statusName" ->
           StatedStatusRank(a.statusType) < StatedStatusRank(b.statusType)
      [] col = "populationName" ->
           StatedPopulationRank(a.populationType) < StatedPopulationRank(b.populationType)
      [] OTHER -> StrLess(toLowerCase(a[col]), toLowerCase(b[col]))

KeyTie(a, b, col) == ~KeyLess(a, b, col) /\ ~KeyLess(b, a, col)

\* The rows of rows whose key ties with that of r, in their order in rows.
RECURSIVE TieGroup(_, _, _)
TieGroup(rows, r, col) ==
    IF rows = <<>> THEN <<>>
    ELSE (IF KeyTie(Head(rows), r, col) THEN <<Head(rows)>> ELSE <<>>)
         \o TieGroup(Tail(rows), r, col)

\* Every tie group of view is the tie group of held, in the order of held:
\* view is a permutation of held that keeps equal keys in held order.
StablePermutation(view, held, col) ==
    /\ Len(view) = Len(held)
    /\ \A i \in 1..Len(held) :
         TieGroup(view, held[i], col) = TieGroup(held, held[i], col)

Ordered(view, col, dir) ==
    \A i \in 1..(Len(view) - 1) :
        IF dir = "asc" THEN ~KeyLess(view[i + 1], view[i], col)
        ELSE ~KeyLess(view[i], view[i + 1], col)

Reverse(seq) == [i \in 1..Len(seq) |-> seq[Len(seq) + 1 - i]]

\* C7: the sorted view is the held sequence when no column is selected;
\* otherwise it is ordered by the column's key in the selected direction and
\* is a permutation of the held rows that keeps rows of equal key in held
\* order.
C7_StableSort ==
    allRealmsForDisplay # None =>
        IF sortColumn = None THEN sortedRealms = allRealmsForDisplay[1]
        ELSE /\ Ordered(sortedRealms, sortColumn[1], sortDirection)
             /\ StablePermutation(sortedRealms, allRealmsForDisplay[1], sortColumn[1])

\* Witness of C7: a descending sort by realm name over "a", "A", "b" held in
\* that order shows "b", "a", "A".
C7_Witness ==
    /\ allRealmsForDisplay # None
    /\ sortColumn = Some("realmName")
    /\ sortDirection = "desc"
    /\ Len(sortedRealms) = 3
    /\ [i \in 1..3 |-> allRealmsForDisplay[1][i].realmName] = <<<<97>>, <<65>>, <<98>>>>
    /\ [i \in 1..3 |-> sortedRealms[i].realmName] = <<<<98>>, <<97>>, <<65>>>>

KeysDistinct(rows, col) ==
    \A i, j \in 1..Len(rows) : i # j => ~KeyTie(rows[i], rows[j], col)

\* C8: for the selected column, the descending sort of the held rows is the
\* reverse of their ascending sort when their keys are pairwise distinct, and
\* both sorts keep every tie group in held order.
C8_DirectionToggle ==
    (allRealmsForDisplay # None /\ sortColumn # None) =>
        LET held == allRealmsForDisplay[1]
            col == sortColumn[1]
            ascending == SortedView(allRealmsForDisplay, sortColumn, "asc")
            descending == SortedView(allRealmsForDisplay, sortColumn, "desc")
        IN  /\ KeysDistinct(held, col) => descending = Reverse(ascending)
            /\ StablePermutation(ascending, held, col)
            /\ StablePermutation(descending, held, col)

\* Witness of C8: four held rows with distinct keys are shown descending,
\* in an order that is neither the held order nor its reverse.
C8_Witness ==
    /\ allRealmsForDisplay # None
    /\ sortColumn # None
    /\ sortDirection = "desc"
    /\ Len(allRealmsForDisplay[1]) = 4
    /\ KeysDistinct(allRealmsForDisplay[1], sortColumn[1])
    /\ sortedRealms # allRealmsForDisplay[1]
    /\ sortedRealms # Reverse(allRealmsForDisplay[1])
    /\ sortedRealms = Reverse(SortedView(allRealmsForDisplay, sortColumn, "asc"))

\* C9: sorted ascending by populationName, the rows appear by stated rank of
\* their populationType: every type outside the table, LOW, MEDIUM, HIGH,
\* FULL.
C9_PopulationOrder ==
    (allRealmsForDisplay # None /\ sortColumn = Some("populationName")
        /\ sortDirection = "asc") =>
        \A i, j \in 1..Len(sortedRealms) :
            i < j => StatedPopulationRank(sortedRealms[i].populationType)
                     <= StatedPopulationRank(sortedRealms[j].populationType)

\* C10: sorted by statusName, ascending shows no UP row before a DOWN row and
\* descending shows no DOWN row before an UP row.
C10_StatusOrder ==
    (allRealmsForDisplay # None /\ sortColumn = Some("statusName")) =>
        \A i, j \in 1..Len(sortedRealms) :
            i < j =>
                IF sortDirection = "asc"
                THEN ~(sortedRealms[i].statusType = "UP"
                       /\ sortedRealms[j].statusType = "DOWN")
                ELSE ~(sortedRealms[i].statusType = "DOWN"
                       /\ sortedRealms[j].statusType = "UP")

\* Witness of C10: an UP row labelled "Live" is held before a DOWN row
\* labelled "Off"; ascending by statusName shows the DOWN row first although
\* "Live" < "Off".
C10_Witness ==
    /\ allRealmsForDisplay # None
    /\ sortColumn = Some("statusName")
    /\ sortDirection = "asc"
    /\ Len(sortedRealms) = 2
    /\ allRealmsForDisplay[1][1].statusType = "UP"
    /\ allRealmsForDisplay[1][2].statusType = "DOWN"
    /\ StrLess(allRealmsForDisplay[1][1].statusName, allRealmsForDisplay[1][2].statusName)
    /\ sortedRealms[1].statusType = "DOWN"
    /\ sortedRealms[2].statusType = "UP"

\* The panel on screen was replaced by a new one (tab switch).
Remounted == \E p \in 1..Len(pipes) : ~pipes[p].unmounted /\ pipes'[p].unmounted

\* A header click happened: the sort state of the panel on screen changed
\* (every click changes it).
SortClicked ==
    /\ ~Remounted
    /\ <<sortColumn, sortDirection>>' # <<sortColumn, sortDirection>>

\* C11: the sort state starts as (none, asc); a click leaves the clicked
\* column active; when that column was active before, the direction flipped,
\* otherwise the direction is asc whatever it was.
C11_SortTransitions ==
    /\ (sortColumn = None /\ sortDirection = "asc")
    /\ [][SortClicked =>
            /\ sortColumn' # None
            /\ sortColumn'[1] \in Columns
            /\ IF sortColumn' = sortColumn
               THEN sortDirection' = (IF sortDirection = "asc" THEN "desc" ELSE "asc")
               ELSE sortDirection' = "asc"]_vars

\* Witness of C11: after clicks that left realmName descending, a click on
\* realmType has made realmType active; it is now descending itself.
C11_Witness ==
    /\ sortColumn = Some("realmType")
    /\ sortDirection = "desc"
    /\ TableRendered

\* C12: within one invocation, a detail request that follows an earlier
\* detail attempt is issued only by the firing of the delay timer.
C12_DelayBeforeNextRequest ==
    [][\A p \in 1..Len(pipes) :
         (pipes[p].next >= 1 /\ pipes'[p].next = pipes[p].next + 1)
         => pipes[p].pc = "delay"]_vars

\* The id the specification assigns to an index entry of the model.
StatedId(entry) == IF entry.href = Some(HrefWithQuery) THEN Id1 ELSE Id2

\* The detail requests an invocation has issued.
DetailsSent(q) == IF q.sent = <<>> THEN <<>> ELSE Tail(q.sent)

\* C13: no detail request precedes the resolution of the index request; the
\* detail requests issued so far are those of the first entries of the index
\* response, in its order; at most one of them is unsettled, and only while
\* the invocation awaits it.
C13_SequentialInOrder ==
    \A p \in 1..Len(pipes) :
        LET q == pipes[p]
            d == DetailsSent(q)
        IN  /\ q.sent # <<>> => q.sent[1] = IndexRequest
            /\ (q.pc = "index" \/ q.entries = None) => d = <<>>
            /\ d # <<>> =>
                 /\ Len(d) <= Len(q.entries[1])
                 /\ \A i \in 1..Len(d) : d[i] = DetailRequest(StatedId(q.entries[1][i]))
            /\ Len(d) - Len(q.served) = (IF q.pc = "detail" THEN 1 ELSE 0)

\* Witness of C13: the first detail request has settled and the second,
\* for the id of the second index entry, is the only one unsettled.
C13_Witness ==
    \E p \in 1..Len(pipes) :
        /\ pipes[p].pc = "detail"
        /\ pipes[p].entries = Some(<<EntryWithQuery, EntryPlain>>)
        /\ pipes[p].sent = <<IndexRequest, DetailRequest(Id1), DetailRequest(Id2)>>
        /\ Len(pipes[p].served) = 1

\* C14: a header click changes nothing but the sort state: rows, loading
\* flag, error, props and every invocation (its requests included) stay as
\* they were.
C14_SortClickFrame ==
    [][SortClicked =>
         UNCHANGED <<allRealmsForDisplay, isLoading, error, pipes, region,
                     ACCESS_TOKEN, mounted>>]_vars

\* Witness of C14: a column is selected, the view differs from the held
\* rows, and the held rows are still the flattening of what the invocation
\* collected.
C14_Witness ==
    /\ TableRendered
    /\ sortColumn # None
    /\ pipes # <<>>
    /\ Alone(Len(pipes))
    /\ pipes[Len(pipes)].outcome = "ready"
    /\ allRealmsForDisplay = Some(flattenedRealms(pipes[Len(pipes)].statuses))
    /\ sortedRealms # allRealmsForDisplay[1]

\* C15: once loading has ended, rows, error message and loading flag stay
\* as they are in every step that is not a parameter change.
C15_TerminalUntilParamChange ==
    [][(mounted /\ ~isLoading /\ Len(pipes') = Len(pipes))
         => UNCHANGED fetchState]_vars

\* The rows the specification expects of the settled detail requests: those
\* of the resolved, well-formed bodies, in request order.
RECURSIVE RowsOfWellFormed(_)
RowsOfWellFormed(served) ==
    IF served = <<>> THEN <<>>
    ELSE (IF Head(served).ok /\ WellFormed(Head(served).data[1])
          THEN MemberRows(Head(served).data[1]) ELSE <<>>)
         \o RowsOfWellFormed(Tail(served))

\* C16: when an invocation that ran with no other in flight returns after
\* one detail request resolved with a well-formed body and another with a
\* body lacking a required field, it ends ready and holds the rows of the
\* well-formed bodies only.
C16_MalformedDetailSkipped ==
    [][\A p \in 1..Len(pipes) :
         LET q == pipes'[p] IN
         ( /\ p = Len(pipes)
           /\ pipes[p].pc # "done"
           /\ q.pc = "done"
           /\ q.solo
           /\ \E i \in 1..Len(q.served) :
                q.served[i].ok /\ WellFormed(q.served[i].data[1])
           /\ \E i \in 1..Len(q.served) :
                q.served[i].ok /\ ~WellFormed(q.served[i].data[1]) )
         => /\ q.outcome = "ready"
            /\ ~isLoading'
            /\ allRealmsForDisplay' = Some(RowsOfWellFormed(q.served))]_vars

\* The ids the specification expects of an index response: those of the
\* entries that carry a link, in order.
RECURSIVE StatedIds(_)
StatedIds(entries) ==
    IF entries = <<>> THEN <<>>
    ELSE (IF Head(entries).href # None THEN <<StatedId(Head(entries))>> ELSE <<>>)
         \o StatedIds(Tail(entries))

\* C17: when the index response lists at least one entry with a link, the
\* step that receives it does not end the invocation in error: the id list
\* is that of the entries with a link, in order, and the first of them is
\* requested.
C17_MalformedEntryDropped ==
    [][\A p \in 1..Len(pipes) :
         LET q == pipes'[p] IN
         ( /\ pipes[p].pc = "index"
           /\ q.pc # "index"
           /\ q.entries # None
           /\ StatedIds(q.entries[1]) # <<>> )
         => /\ q.outcome # "error"
            /\ q.ids = StatedIds(q.entries[1])
            /\ q.sent = <<IndexRequest, DetailRequest(q.ids[1])>>]_vars

\* C18: once a parameter change has started a later invocation, an earlier
\* invocation of the panel on screen issues no further request.
C18_SupersededIssuesNothing ==
    [][\A p \in 1..Len(pipes) :
         (p < Len(pipes) /\ ~pipes'[p].unmounted)
         => pipes'[p].sent = pipes[p].sent]_vars

\* C19: when no two invocations ever overlapped and the table is rendered,
\* the invocation for the current parameters ended ready and the rows held
\* are the ones it produced.
C19_RowsAreCurrent ==
    (TableRendered /\ pipes # <<>> /\ \A p \in 1..Len(pipes) : pipes[p].solo)
    => /\ pipes[Len(pipes)].outcome = "ready"
       /\ allRealmsForDisplay = Some(flattenedRealms(pipes[Len(pipes)].statuses))

\* Invocation p is the latest one and has not returned.
Running(p) == Len(pipes) = p /\ pipes[p].pc # "done"

\* Invocation p is the latest one and has returned into READY or ERROR:
\* loading is off and an error message or rows are held.
Ended(p) ==
    /\ Len(pipes) = p
    /\ pipes[p].pc = "done"
    /\ pipes[p].outcome \in {"ready", "error"}
    /\ ~isLoading
    /\ (error # None \/ allRealmsForDisplay # None)

\* C20: when every request settles and every timer fires, a state in which
\* the latest invocation has not returned is followed by one in which the
\* latest invocation (the same one, unless a parameter change superseded
\* it) has returned with loading off and an error message or rows held; and
\* every step in which an invocation of the panel on screen returns leaves
\* loading off and an error message or rows held.
C20_Termination ==
    /\ (\E p \in 1..MaxPipelines : Running(p)) ~> (\E p \in 1..MaxPipelines : Ended(p))
    /\ [][\A p \in 1..Len(pipes) :
            (pipes[p].pc # "done" /\ pipes'[p].pc = "done" /\ ~pipes'[p].unmounted)
            => (~isLoading' /\ (error' # None \/ allRealmsForDisplay' # None))]_vars

\* Witness of C20: the latest invocation went through two detail requests,
\* both rejected, and has returned.
C20_Witness ==
    \E p \in 1..Len(pipes) :
        /\ Ended(p)
        /\ Len(pipes[p].served) = 2
        /\ \A i \in 1..2 : ~pipes[p].served[i].ok

====
